---- MODULE Spec2Model ----
(***************************************************************************)
(* clippy_dev/src/lib.rs: the region replacer (replace_region_in_file,     *)
(* replace_region_in_text) and the lint records (Lint::new, parse_contents,*)
(* Lint::usable_lints, gen_changelog_lint_list).                           *)
(*                                                                         *)
(* A string is a sequence of one-character strings; a Vec<String> is a     *)
(* sequence of such sequences.                                             *)
(***************************************************************************)
EXTENDS Integers, Sequences, FiniteSets, TLC

VARIABLES
    \* ---- region replacer ----
    disk,            \* content of the file at `path`
    disk0,           \* history: content of the file when the call started
    start,           \* Regex::new(start)
    end,             \* Regex::new(end)
    replace_start,   \* the replace_start flag
    replacements,    \* the Vec<String> the closure `replacements` returns
    pc,              \* position inside replace_region_in_file
    contents,        \* `contents` of replace_region_in_file = `text`
    lines,           \* what is left of the iterator text.lines()
    in_old_region,
    found,
    new_lines,
    replaced,        \* the String replace_region_in_text returned
    calls,           \* history: how often replacements() was invoked
    notice,          \* history: the println! of the not-found notice ran
    \* ---- lint records ----
    content,         \* the declarations the two regexes find in a file, in file order
    lints,           \* a Vec<Lint>
    out,             \* what usable_lints / gen_changelog_lint_list returned
    lpc              \* which lint operation ran last

rvars == <<disk, disk0, start, end, replace_start, replacements, pc, contents,
           lines, in_old_region, found, new_lines, replaced, calls, notice>>

lvars == <<content, lints, out, lpc>>

vars == <<rvars, lvars>>

----------------------------------------------------------------------------
(* Bounds of the model. *)
MaxPieces == 4      \* newline-separated pieces of the initial file content

NL == "\n"
CR == "\r"

----------------------------------------------------------------------------
(* Strings. *)

RECURSIVE Join(_)
\* new_lines.join("\n")
Join(ls) ==
    IF ls = <<>> THEN <<>>
    ELSE IF Len(ls) = 1 THEN ls[1]
    ELSE ls[1] \o <<NL>> \o Join(Tail(ls))

\* index of the first "\n" of s, 0 if there is none
FirstNL(s) ==
    IF \E k \in 1..Len(s) : s[k] = NL
    THEN CHOOSE k \in 1..Len(s) : s[k] = NL /\ \A m \in 1..(k-1) : s[m] # NL
    ELSE 0

\* a line of str::lines() loses the "\r" of a "\r\n" line ending
StripCR(l) ==
    IF l # <<>> /\ l[Len(l)] = CR THEN SubSeq(l, 1, Len(l) - 1) ELSE l

RECURSIVE Lines(_)
\* str::lines(): lines end at "\n" or "\r\n"; the final line ending is optional,
\* so a text that ends with a line ending has no empty last line
Lines(s) ==
    IF s = <<>> THEN <<>>
    ELSE LET k == FirstNL(s) IN
         IF k = 0 THEN <<s>>
         ELSE <<StripCR(SubSeq(s, 1, k - 1))>> \o Lines(SubSeq(s, k + 1, Len(s)))

\* a regex of the family  lit  and  ^lit$  (lit a literal without metacharacters)
Re(anchored, lit) == [anchored |-> anchored, lit |-> lit]

\* Regex::is_match
IsMatch(re, line) ==
    IF re.anchored THEN line = re.lit
    ELSE \E k \in 0..(Len(line) - Len(re.lit)) :
            SubSeq(line, k + 1, k + Len(re.lit)) = re.lit

----------------------------------------------------------------------------
(* replace_region_in_text *)

\* the locals of the loop before its first iteration
LoopInit == [in_old_region |-> FALSE, found |-> FALSE, new_lines |-> <<>>, calls |-> 0]

\* LoopBody with the end line not pushed after the replacement lines
LoopBody_DropsEndLine(st, line, s, e, rs, g) ==
    IF st.in_old_region THEN
        IF IsMatch(e, line)
        THEN [st EXCEPT !.in_old_region = FALSE,
                        !.new_lines = st.new_lines \o g,
                        !.calls = st.calls + 1]
        ELSE st
    ELSE IF IsMatch(s, line) THEN
        [st EXCEPT !.new_lines = IF ~rs THEN st.new_lines \o <<line>> ELSE st.new_lines,
                   !.in_old_region = TRUE,
                   !.found = TRUE]
    ELSE [st EXCEPT !.new_lines = st.new_lines \o <<line>>]

\* LoopBody with the lines inside the region pushed instead of suppressed
LoopBody_KeepsRegionLines(st, line, s, e, rs, g) ==
    IF st.in_old_region THEN
        IF IsMatch(e, line)
        THEN [st EXCEPT !.in_old_region = FALSE,
                        !.new_lines = (st.new_lines \o g) \o <<line>>,
                        !.calls = st.calls + 1]
        ELSE [st EXCEPT !.new_lines = st.new_lines \o <<line>>]
    ELSE IF IsMatch(s, line) THEN
        [st EXCEPT !.new_lines = IF ~rs THEN st.new_lines \o <<line>> ELSE st.new_lines,
                   !.in_old_region = TRUE,
                   !.found = TRUE]
    ELSE [st EXCEPT !.new_lines = st.new_lines \o <<line>>]

\* LoopBody with the end pattern tried on the lines outside the region too
LoopBody_EndOutsideRegion(st, line, s, e, rs, g) ==
    IF st.in_old_region \/ IsMatch(e, line) THEN
        IF IsMatch(e, line)
        THEN [st EXCEPT !.in_old_region = FALSE,
                        !.new_lines = (st.new_lines \o g) \o <<line>>,
                        !.calls = st.calls + 1]
        ELSE st
    ELSE IF IsMatch(s, line) THEN
        [st EXCEPT !.new_lines = IF ~rs THEN st.new_lines \o <<line>> ELSE st.new_lines,
                   !.in_old_region = TRUE,
                   !.found = TRUE]
    ELSE [st EXCEPT !.new_lines = st.new_lines \o <<line>>]

\* one iteration of `for line in lines`
LoopBody(st, line, s, e, rs, g) ==
    IF st.in_old_region THEN
        IF IsMatch(e, line)
        THEN [st EXCEPT !.in_old_region = FALSE,
                        !.new_lines = (st.new_lines \o g) \o <<line>>,
                        !.calls = st.calls + 1]
        ELSE st
    ELSE IF IsMatch(s, line) THEN
        [st EXCEPT !.new_lines = IF ~rs THEN st.new_lines \o <<line>> ELSE st.new_lines,
                   !.in_old_region = TRUE,
                   !.found = TRUE]
    ELSE [st EXCEPT !.new_lines = st.new_lines \o <<line>>]

RECURSIVE Loop(_, _, _, _, _, _)
\* the whole loop over the lines ls
Loop(st, ls, s, e, rs, g) ==
    IF ls = <<>> THEN st
    ELSE Loop(LoopBody(st, Head(ls), s, e, rs, g), Tail(ls), s, e, rs, g)

\* the String replace_region_in_text(text, s, e, rs, || g) returns
ReplaceRegionInText(text, s, e, rs, g) ==
    Join(Loop(LoopInit, Lines(text), s, e, rs, g).new_lines)

----------------------------------------------------------------------------
(* Inputs. *)

PieceSet == {<<>>, <<"a">>, <<"b">>, <<"c">>}

RECURSIVE SeqsUpTo(_, _)
\* the sequences over S of length at most n
SeqsUpTo(S, n) ==
    IF n = 0 THEN {<<>>}
    ELSE LET R == SeqsUpTo(S, n - 1) IN
         R \cup {<<x>> \o r : x \in S, r \in {q \in R : Len(q) = n - 1}}

\* every text over the characters a, b, c and "\n" with at most MaxPieces pieces
TextSet == {Join(ps) : ps \in SeqsUpTo(PieceSet, MaxPieces)}

StartSet == {Re(FALSE, <<"a">>), Re(TRUE, <<>>)}
EndSet == {Re(FALSE, <<"b">>), Re(FALSE, <<"a">>)}
GenSet == {<<>>, << <<"c">> >>, << <<"c">>, <<"b">> >>, << <<"c", NL, "a">> >>}

----------------------------------------------------------------------------
(* replace_region_in_file, one action per step *)

RInit ==
    /\ disk \in TextSet
    /\ disk0 = disk
    /\ start \in StartSet
    /\ end \in EndSet
    /\ replace_start \in BOOLEAN
    /\ replacements \in GenSet
    /\ pc = "open"
    /\ contents = <<>>
    /\ lines = <<>>
    /\ in_old_region = FALSE
    /\ found = FALSE
    /\ new_lines = <<>>
    /\ replaced = <<>>
    /\ calls = 0
    /\ notice = FALSE

\* an expect() on an Err panics
Panic ==
    /\ pc' = "panicked"
    /\ UNCHANGED <<disk0, start, end, replace_start, replacements, contents, lines,
                   in_old_region, found, new_lines, replaced, calls, notice, lvars>>

\* fs::File::open(path)
Open ==
    /\ pc = "open"
    /\ pc' = "read"
    /\ UNCHANGED <<disk, disk0, start, end, replace_start, replacements, contents,
                   lines, in_old_region, found, new_lines, replaced, calls, notice, lvars>>

OpenFail ==
    /\ pc = "open"
    /\ Panic
    /\ UNCHANGED disk

\* f.read_to_string(&mut contents), then the entry of replace_region_in_text
Read ==
    /\ pc = "read"
    /\ contents' = disk
    /\ lines' = Lines(disk)
    /\ in_old_region' = LoopInit.in_old_region
    /\ found' = LoopInit.found
    /\ new_lines' = LoopInit.new_lines
    /\ pc' = "loop"
    /\ UNCHANGED <<disk, disk0, start, end, replace_start, replacements, replaced,
                   calls, notice, lvars>>

ReadFail ==
    /\ pc = "read"
    /\ Panic
    /\ UNCHANGED disk

\* one iteration of the loop of replace_region_in_text
ScanLine ==
    /\ pc = "loop"
    /\ lines # <<>>
    /\ LET st == [in_old_region |-> in_old_region, found |-> found,
                  new_lines |-> new_lines, calls |-> calls]
           nx == LoopBody(st, Head(lines), start, end, replace_start, replacements)
       IN /\ in_old_region' = nx.in_old_region
          /\ found' = nx.found
          /\ new_lines' = nx.new_lines
          /\ calls' = nx.calls
    /\ lines' = Tail(lines)
    /\ UNCHANGED <<disk, disk0, start, end, replace_start, replacements, pc, contents,
                   replaced, notice, lvars>>

\* after the loop: the notice, and the join
Finish ==
    /\ pc = "loop"
    /\ lines = <<>>
    /\ notice' = ~found
    /\ replaced' = Join(new_lines)
    /\ pc' = "create"
    /\ UNCHANGED <<disk, disk0, start, end, replace_start, replacements, contents,
                   lines, in_old_region, found, new_lines, calls, lvars>>

\* fs::File::create(path) truncates the file
Create ==
    /\ pc = "create"
    /\ disk' = <<>>
    /\ pc' = "write"
    /\ UNCHANGED <<disk0, start, end, replace_start, replacements, contents, lines,
                   in_old_region, found, new_lines, replaced, calls, notice, lvars>>

CreateFail ==
    /\ pc = "create"
    /\ Panic
    /\ UNCHANGED disk

\* f.write_all(replaced.as_bytes())
WriteReplaced ==
    /\ pc = "write"
    /\ disk' = disk \o replaced
    /\ pc' = "newline"
    /\ UNCHANGED <<disk0, start, end, replace_start, replacements, contents, lines,
                   in_old_region, found, new_lines, replaced, calls, notice, lvars>>

\* write_all fails after it has written some of the bytes
WriteReplacedFail ==
    /\ pc = "write"
    /\ \E k \in 0..(Len(replaced) - 1) : disk' = disk \o SubSeq(replaced, 1, k)
    /\ Panic

\* WriteNewline without the write
WriteNewline_Missing ==
    /\ pc = "newline"
    /\ pc' = "done"
    /\ UNCHANGED <<disk, disk0, start, end, replace_start, replacements, contents,
                   lines, in_old_region, found, new_lines, replaced, calls, notice, lvars>>

\* f.write_all(b"\n")
WriteNewline ==
    /\ pc = "newline"
    /\ disk' = disk \o <<NL>>
    /\ pc' = "done"
    /\ UNCHANGED <<disk0, start, end, replace_start, replacements, contents, lines,
                   in_old_region, found, new_lines, replaced, calls, notice, lvars>>

WriteNewlineFail ==
    /\ pc = "newline"
    /\ Panic
    /\ UNCHANGED disk

----------------------------------------------------------------------------
(* Lint records *)

MaxDecls == 2       \* declarations in a parsed file
MaxLints == 3       \* records in a Vec<Lint> built with Lint::new

None == <<>>
Some(x) == <<x>>

BS == "\\"
QUOTE == "\""
SP == " "
BACKTICK == "U+0060"    \* stands for the one character U+0060

Internal == <<"i", "n", "t", "e", "r", "n", "a", "l">>
InternalStyle == Internal \o <<"_", "s", "t", "y", "l", "e">>
Intern == <<"i", "n", "t", "e", "r", "n">>
Style == <<"s", "t", "y", "l", "e">>
Deprecated == <<"D", "e", "p", "r", "e", "c", "a", "t", "e", "d">>
ModuleName == <<"m">>
DOCS_LINK == <<"https://rust-lang-nursery.github.io/rust-clippy/master/index.html">>

\* char::to_lowercase on the characters of the names used here
Lower(c) == CASE c = "A" -> "a" [] c = "B" -> "b" [] OTHER -> c

\* str::to_lowercase
ToLowercase(s) == [k \in 1..Len(s) |-> Lower(s[k])]

\* the byte of a character of a name
Byte(c) == CASE c = "A" -> 65 [] c = "B" -> 66 [] c = "_" -> 95
             [] c = "a" -> 97 [] c = "b" -> 98 [] OTHER -> 0

RECURSIVE StrLess(_, _)
\* String's Ord: a < b, bytewise lexicographic
StrLess(a, b) ==
    IF b = <<>> THEN FALSE
    ELSE IF a = <<>> THEN TRUE
    ELSE IF Byte(Head(a)) # Byte(Head(b)) THEN Byte(Head(a)) < Byte(Head(b))
    ELSE StrLess(Tail(a), Tail(b))

\* str::starts_with
StartsWith(s, p) == Len(s) >= Len(p) /\ SubSeq(s, 1, Len(p)) = p

RECURSIVE ReplaceEscapedQuotes(_)
\* desc.replace("\\\"", "\""): every  \"  becomes  "
ReplaceEscapedQuotes(s) ==
    IF Len(s) < 2 THEN s
    ELSE IF s[1] = BS /\ s[2] = QUOTE
         THEN <<QUOTE>> \o ReplaceEscapedQuotes(SubSeq(s, 3, Len(s)))
         ELSE <<s[1]>> \o ReplaceEscapedQuotes(Tail(s))

\* \s of the regex
IsSpace(c) == c \in {SP, NL, CR, "\t"}

RECURSIVE SkipSpace(_)
\* s without its longest prefix of whitespace (the greedy \s*)
SkipSpace(s) == IF s # <<>> /\ IsSpace(Head(s)) THEN SkipSpace(Tail(s)) ELSE s

RECURSIVE ReplaceNlEscape(_)
\* NL_ESCAPE_RE.replace(s, ""): Regex::replace replaces the first match of
\* \\\n\s*  only
ReplaceNlEscape(s) ==
    IF Len(s) < 2 THEN s
    ELSE IF s[1] = BS /\ s[2] = NL
         THEN SkipSpace(SubSeq(s, 3, Len(s)))
         ELSE <<s[1]>> \o ReplaceNlEscape(Tail(s))

\* Lint::new
LintNew(name, group, desc, deprecation, module) ==
    [name |-> ToLowercase(name),
     group |-> group,
     desc |-> ReplaceNlEscape(ReplaceEscapedQuotes(desc)),
     deprecation |-> IF deprecation = None THEN None ELSE Some(deprecation[1]),
     module |-> module]

\* Lint::is_internal
IsInternal(l) == StartsWith(l.group, Internal)

\* UsableKeep without the test of the group
UsableKeep_IgnoresInternal(l) == l.deprecation = None

\* the filter closure of Lint::usable_lints
UsableKeep(l) == l.deprecation = None /\ ~IsInternal(l)

\* Lint::usable_lints
UsableLints(ls) == SelectSeq(ls, UsableKeep)

RECURSIVE InsertByName(_, _)
\* l inserted after the last record of the sorted ls whose name is not greater
InsertByName(ls, l) ==
    IF ls = <<>> THEN <<l>>
    ELSE IF StrLess(l.name, Head(ls).name) THEN <<l>> \o ls
    ELSE <<Head(ls)>> \o InsertByName(Tail(ls), l)

\* SortByName without the sort
SortByName_Unsorted(ls) == ls

RECURSIVE SortByName(_)
\* lint_list_sorted.sort_by_key(|l| l.name.clone()): a stable sort
SortByName(ls) ==
    IF ls = <<>> THEN <<>>
    ELSE InsertByName(SortByName(SubSeq(ls, 1, Len(ls) - 1)), ls[Len(ls)])

\* the format! of gen_changelog_lint_list: [, backtick, name, backtick, ]: , DOCS_LINK,
\* #, name
LinkLine(l) ==
    <<"[", BACKTICK>> \o l.name \o <<BACKTICK, "]", ":", SP>> \o DOCS_LINK \o <<"#">> \o l.name

\* the filter_map closure of gen_changelog_lint_list
ChangelogKeep(l) == ~IsInternal(l)

\* gen_changelog_lint_list
GenChangelogLintList(ls) ==
    LET kept == SelectSeq(SortByName(ls), ChangelogKeep)
    IN [k \in 1..Len(kept) |-> LinkLine(kept[k])]

\* a match of DEC_CLIPPY_LINT_RE / DEC_DEPRECATED_LINT_RE with its named groups
Decl(macro, name, cat, desc) == [macro |-> macro, name |-> name, cat |-> cat, desc |-> desc]

IsClippyDecl(d) == d.macro = "declare_clippy_lint"
IsDeprecatedDecl(d) == d.macro = "declare_deprecated_lint"

\* the Lint of a match of DEC_CLIPPY_LINT_RE
PrimaryLint(d, filename) == LintNew(d.name, d.cat, d.desc, None, filename)

\* DeprecatedLint with the description passed on after its normalisation
DeprecatedLint_Normalised(d, filename) ==
    LET l == LintNew(d.name, Deprecated, d.desc, None, filename)
    IN [l EXCEPT !.deprecation = Some(l.desc)]

\* the Lint of a match of DEC_DEPRECATED_LINT_RE
DeprecatedLint(d, filename) == LintNew(d.name, Deprecated, d.desc, Some(d.desc), filename)

\* parse_contents: the primary matches, then the deprecated ones
ParseContentsOf(c, filename) ==
    LET prim == SelectSeq(c, IsClippyDecl)
        depr == SelectSeq(c, IsDeprecatedDecl)
    IN [k \in 1..Len(prim) |-> PrimaryLint(prim[k], filename)]
       \o [k \in 1..Len(depr) |-> DeprecatedLint(depr[k], filename)]

\* names the group (?P<name>[A-Z_][A-Z_0-9]*) captures
DeclNames == {<<"A">>, <<"B", "_">>}
\* categories the group (?P<cat>[a-z_]+) captures
DeclCats == {Style, Internal}
\* strings the group (?P<desc>(?:[^"\\]+|\\(?s).(?-s))*) captures
DeclDescs == {<<"d">>,
              <<"d", BS, QUOTE>>,
              <<"d", SP, BS, NL, SP, SP, "e">>,
              <<BS, NL, "d", BS, NL, "e">>}

DeclSet ==
    {Decl("declare_clippy_lint", n, c, d) : n \in DeclNames, c \in DeclCats, d \in DeclDescs}
    \cup {Decl("declare_deprecated_lint", n, <<>>, d) : n \in DeclNames, d \in DeclDescs}

\* arguments of Lint::new as the callers of the library write them
NewNames == {<<"b">>, <<"A">>, <<"a", "B">>}
NewGroups == {Style, Intern, Internal, InternalStyle}
NewDeprecations == {None, Some(<<"r">>)}

NewSet == {LintNew(n, g, <<"d">>, dp, ModuleName) :
              n \in NewNames, g \in NewGroups, dp \in NewDeprecations}

LInit ==
    /\ content \in SeqsUpTo(DeclSet, MaxDecls)
    /\ lints = <<>>
    /\ out = <<>>
    /\ lpc = "start"

\* parse_contents(content, filename)
ParseContents ==
    /\ lpc = "start"
    /\ lints' = ParseContentsOf(content, ModuleName)
    /\ lpc' = "parsed"
    /\ UNCHANGED <<content, out, rvars>>

\* a caller builds a Vec<Lint> with Lint::new
NewLints ==
    /\ lpc = "start"
    /\ content = <<>>
    /\ lints' \in SeqsUpTo(NewSet, MaxLints)
    /\ lpc' = "built"
    /\ UNCHANGED <<content, out, rvars>>

\* Lint::usable_lints(lints.into_iter()).collect()
CallUsableLints ==
    /\ lpc \in {"parsed", "built"}
    /\ out' = UsableLints(lints)
    /\ lpc' = "usable"
    /\ UNCHANGED <<content, lints, rvars>>

\* gen_changelog_lint_list(lints)
CallGenChangelogLintList ==
    /\ lpc \in {"parsed", "built"}
    /\ out' = GenChangelogLintList(lints)
    /\ lpc' = "changelog"
    /\ UNCHANGED <<content, lints, rvars>>

\* no call of replace_region_in_file runs during the lint operations
RIdle ==
    /\ disk = <<>> /\ disk0 = <<>>
    /\ start = Re(FALSE, <<>>) /\ end = Re(FALSE, <<>>)
    /\ replace_start = FALSE
    /\ replacements = <<>>
    /\ pc = "idle"
    /\ contents = <<>> /\ lines = <<>>
    /\ in_old_region = FALSE /\ found = FALSE
    /\ new_lines = <<>> /\ replaced = <<>>
    /\ calls = 0 /\ notice = FALSE

\* no lint operation runs during a call of replace_region_in_file
LIdle ==
    /\ content = <<>>
    /\ lints = <<>>
    /\ out = <<>>
    /\ lpc = "idle"

Init == RInit /\ LIdle

Next ==
    \/ Open
    \/ OpenFail
    \/ Read
    \/ ReadFail
    \/ ScanLine
    \/ Finish
    \/ Create
    \/ CreateFail
    \/ WriteReplaced
    \/ WriteReplacedFail
    \/ WriteNewline
    \/ WriteNewlineFail

Spec == Init /\ [][Next]_vars

LintInit == LInit /\ RIdle

LintNext ==
    \/ ParseContents
    \/ NewLints
    \/ CallUsableLints
    \/ CallGenChangelogLintList

SpecLint == LintInit /\ [][LintNext]_vars

----------------------------------------------------------------------------
(* Properties of the region replacer (specification Spec) *)

\* the lines of the text the call works on
TextLines == Lines(contents)

\* replace_region_in_text has returned `replaced`
Returned == pc \in {"create", "write", "newline", "done"}

\* index of the first line of ls at or after position k that re matches, 0 if none
FirstMatchFrom(ls, re, k) ==
    IF \E i \in k..Len(ls) : IsMatch(re, ls[i])
    THEN CHOOSE i \in k..Len(ls) :
            IsMatch(re, ls[i]) /\ \A m \in k..(i - 1) : ~IsMatch(re, ls[m])
    ELSE 0

\* index of the first start-matching line of the text, 0 if none
StartIdx == FirstMatchFrom(TextLines, start, 1)

\* index of the first end-matching line after the first start line, 0 if none
EndIdx == IF StartIdx = 0 THEN 0 ELSE FirstMatchFrom(TextLines, end, StartIdx + 1)

\* the text has a region: a start line and a later end line
HasRegion == StartIdx > 0 /\ EndIdx > 0

\* the start line as it is kept
KeptStart == IF replace_start THEN <<>> ELSE <<TextLines[StartIdx]>>

\* number of "\n" at the end of s
RECURSIVE TrailingNL(_)
TrailingNL(s) ==
    IF s # <<>> /\ s[Len(s)] = NL THEN 1 + TrailingNL(SubSeq(s, 1, Len(s) - 1)) ELSE 0

\* p is a prefix of s
IsPrefix(p, s) == Len(p) <= Len(s) /\ SubSeq(s, 1, Len(p)) = p

\* C1 (as claimed): once the first region has been closed (the generator has been
\* invoked), every further line of the loop is emitted unchanged and the generator
\* is not invoked again.
C1_OnlyFirstRegionReplaced ==
    [][(pc = "loop" /\ lines # <<>> /\ calls >= 1)
          => (new_lines' = Append(new_lines, Head(lines)) /\ calls' = calls)]_vars

\* C2: in a text with a first start line i and a first end line j after it, the
\* output starts with lines[0..i), line i unless replace_start, the generator's
\* lines in order, and line j; no line strictly between i and j is emitted. With
\* no start line after j the lines after j follow unchanged and end the output.
C2_RegionReplaced ==
    (Returned /\ HasRegion) =>
        LET L == TextLines
            exp == SubSeq(L, 1, StartIdx - 1) \o KeptStart \o replacements \o <<L[EndIdx]>>
        IN /\ IsPrefix(exp, new_lines)
           /\ replaced = Join(new_lines)
           /\ IsPrefix(Join(exp), replaced)
           /\ Len(replaced) > Len(Join(exp)) => replaced[Len(Join(exp)) + 1] = NL
           /\ FirstMatchFrom(L, start, EndIdx + 1) = 0
                 => new_lines = exp \o SubSeq(L, EndIdx + 1, Len(L))

\* C2: a call with lines before the start line, lines inside the region, a
\* generator of two lines and the start line kept has returned
C2_Witness ==
    /\ Returned /\ HasRegion
    /\ StartIdx > 1 /\ EndIdx > StartIdx + 1
    /\ Len(replacements) = 2
    /\ ~replace_start

\* C3: with no start-matching line the call prints the notice, never invokes the
\* generator and returns the input's lines, in order, joined by single newlines.
C3_NoStartIsNoOp ==
    (Returned /\ StartIdx = 0) =>
        /\ notice
        /\ calls = 0
        /\ new_lines = TextLines
        /\ replaced = Join(TextLines)

\* C3: a call on a text with no start line but with an end-matching line has returned
C3_Witness ==
    /\ Returned /\ StartIdx = 0
    /\ Len(TextLines) >= 2
    /\ \E k \in 1..Len(TextLines) : IsMatch(end, TextLines[k])
    /\ replace_start

\* C10: with a start line i and no end line after it the generator is never
\* invoked, no notice is printed, and the output is lines[0..i) plus line i
\* unless replace_start: every line after line i is dropped.
C10_UnterminatedRegion ==
    (Returned /\ StartIdx > 0 /\ EndIdx = 0) =>
        /\ calls = 0
        /\ ~notice
        /\ new_lines = SubSeq(TextLines, 1, StartIdx - 1) \o KeptStart
        /\ replaced = Join(SubSeq(TextLines, 1, StartIdx - 1) \o KeptStart)

\* C10: a call on a text with lines before and after an unterminated start line
\* has returned
C10_Witness ==
    /\ Returned /\ StartIdx > 1 /\ EndIdx = 0
    /\ Len(TextLines) > StartIdx + 1

\* C5 (as claimed): after a successful call the file ends with exactly one newline.
C5_ExactlyOneTrailingNewline == pc = "done" => TrailingNL(disk) = 1

\* C5 (amended): after a successful call the file is the replaced text plus one
\* newline, so it ends with at least one newline; it ends with exactly one unless
\* the last kept line is empty and is not the only kept line.
C5_TrailingNewline ==
    pc = "done" =>
        /\ disk = replaced \o <<NL>>
        /\ TrailingNL(disk) >= 1
        /\ TrailingNL(disk) = 1
              <=> ~(Len(new_lines) >= 2 /\ new_lines[Len(new_lines)] = <<>>)

\* C5: a successful call that replaced a region left a file ending in two newlines
C5_Witness == pc = "done" /\ TrailingNL(disk) >= 2 /\ calls = 1

\* C6 (as claimed): when a step of replace_region_in_file has failed, the file
\* holds its complete original content or the complete new content with its
\* trailing newline.
C6_NoHalfWrittenFile ==
    pc = "panicked" => (disk = disk0 \/ disk = Join(new_lines) \o <<NL>>)

\* the lines strictly between the first start line and the first end line after it
Interior == SubSeq(TextLines, StartIdx + 1, EndIdx - 1)

\* replace_region_in_text applied to the output of the call, with the same
\* patterns and flag and a generator that returns the original interior lines
SecondPass == ReplaceRegionInText(replaced, start, end, replace_start, Interior)

\* replace_region_in_text applied to the input text with that generator
DirectPass == ReplaceRegionInText(contents, start, end, replace_start, Interior)

\* C4 (as claimed): replacing the region of a text with any generator and then
\* replacing it again with the original interior lines gives back the lines of
\* the original text.
C4_RoundTrip == (Returned /\ HasRegion) => Lines(SecondPass) = TextLines

\* the generator's lines, as a later pass over the output reads them
GenLines == Lines(Join(replacements))

\* no line the generator produced matches the end pattern
GenAvoidsEnd == \A k \in 1..Len(GenLines) : ~IsMatch(end, GenLines[k])

\* the last line of the text is not empty
LastLineNonEmpty == TextLines # <<>> /\ TextLines[Len(TextLines)] # <<>>

\* no line after the end line of the first region matches the start pattern
OneRegion == FirstMatchFrom(TextLines, start, EndIdx + 1) = 0

\* C4 (amended): with replace_start false, a text whose last line is not empty and
\* a first generator none of whose lines matches the end pattern, the second
\* replacement gives the lines of replacing the original text directly with its
\* original interior lines; these are the original text's lines when no line
\* after the region's end line matches the start pattern.
C4_RoundTripAmended ==
    (Returned /\ HasRegion /\ ~replace_start /\ GenAvoidsEnd /\ LastLineNonEmpty) =>
        /\ Lines(SecondPass) = Lines(DirectPass)
        /\ OneRegion => Lines(SecondPass) = TextLines

\* C4: a region with a non-empty interior was replaced by other lines, and the
\* second replacement restored the original lines
C4_Witness ==
    /\ Returned /\ HasRegion /\ ~replace_start /\ GenAvoidsEnd /\ LastLineNonEmpty
    /\ OneRegion
    /\ Interior # <<>>
    /\ replacements # <<>>
    /\ replacements # Interior
    /\ Lines(SecondPass) = TextLines

----------------------------------------------------------------------------
(* Properties of the lint records (specification SpecLint) *)

\* the declarations of the file that DEC_CLIPPY_LINT_RE matches
ClippyDecls == SelectSeq(content, IsClippyDecl)

\* the declarations of the file that DEC_DEPRECATED_LINT_RE matches
DeprecatedDecls == SelectSeq(content, IsDeprecatedDecl)

\* the captured string holds an escaped quote or a backslash-newline continuation
HasEscape(d) == \E k \in 1..(Len(d) - 1) : d[k] = BS /\ d[k + 1] \in {QUOTE, NL}

\* C7 (as claimed): a record of the deprecated pattern has group "Deprecated" and
\* deprecation = Some(its own description field); a record of the primary pattern
\* has deprecation = None.
C7_DeprecationIsDescription ==
    lpc = "parsed" =>
        \A k \in 1..Len(lints) :
            IF k <= Len(ClippyDecls)
            THEN lints[k].deprecation = None
            ELSE /\ lints[k].group = Deprecated
                 /\ lints[k].deprecation = Some(lints[k].desc)

\* C7 (amended): a record of the deprecated pattern has group "Deprecated" and
\* deprecation = Some(the captured string as captured); that equals its description
\* field exactly when the captured string holds no escaped quote and no
\* backslash-newline continuation. A record of the primary pattern has
\* deprecation = None.
C7_DeprecationIsCapture ==
    lpc = "parsed" =>
        /\ Len(lints) = Len(ClippyDecls) + Len(DeprecatedDecls)
        /\ \A k \in 1..Len(lints) :
            IF k <= Len(ClippyDecls)
            THEN lints[k].deprecation = None
            ELSE LET d == DeprecatedDecls[k - Len(ClippyDecls)] IN
                 /\ lints[k].group = Deprecated
                 /\ lints[k].deprecation = Some(d.desc)
                 /\ (lints[k].deprecation = Some(lints[k].desc)) <=> ~HasEscape(d.desc)

\* C7: a file with one primary and one deprecated declaration was parsed, and the
\* deprecated record's deprecation differs from its description
C7_Witness ==
    /\ lpc = "parsed"
    /\ Len(ClippyDecls) = 1
    /\ Len(lints) = 2
    /\ lints[2].deprecation # None
    /\ lints[2].deprecation # Some(lints[2].desc)

\* the group starts with "internal"
InternalGroup(g) == Len(g) >= 8 /\ \A k \in 1..8 : g[k] = Internal[k]

\* a record usable_lints has to exclude
Excluded(l) == l.deprecation # None \/ InternalGroup(l.group)

\* the indices of the records of ls that P holds of
Indices(ls, P(_)) == {k \in 1..Len(ls) : P(ls[k])}

\* the n-th smallest element of the set S of numbers
Nth(S, n) == CHOOSE k \in S : Cardinality({m \in S : m <= k}) = n

NotExcluded(l) == ~Excluded(l)

\* C8: usable_lints returns, in input order, exactly the records with neither a
\* deprecation nor a group that starts with "internal"; with no such record in
\* the input the output is the input.
C8_UsableLints ==
    lpc = "usable" =>
        LET K == Indices(lints, NotExcluded) IN
        /\ Len(out) = Cardinality(K)
        /\ \A n \in 1..Len(out) : out[n] = lints[Nth(K, n)]
        /\ (\A k \in 1..Len(lints) : ~Excluded(lints[k])) => out = lints

\* C8: usable_lints dropped a deprecated and an internal_style record and kept a
\* record whose group is only a prefix of "internal"
C8_Witness ==
    /\ lpc = "usable"
    /\ Len(lints) = 3
    /\ lints[1].deprecation # None /\ ~InternalGroup(lints[1].group)
    /\ lints[2].deprecation = None /\ lints[2].group = Intern
    /\ lints[3].deprecation = None /\ lints[3].group = InternalStyle
    /\ out = <<lints[2]>>

\* the name of a link line: the line has 2 * Len(name) + 8 elements
NameOf(line) == SubSeq(line, 3, 2 + (Len(line) - 8) \div 2)

NotInternal(l) == ~InternalGroup(l.group)

\* C9: gen_changelog_lint_list returns one link line per record whose group does
\* not start with "internal", deprecated records included, ordered by name
\* ascending.
C9_ChangelogList ==
    lpc = "changelog" =>
        LET K == Indices(lints, NotInternal) IN
        /\ Len(out) = Cardinality(K)
        /\ \A n \in 1..Len(out) :
              /\ out[n] = LinkLine([name |-> NameOf(out[n])])
              /\ Cardinality({m \in 1..Len(out) : out[m] = out[n]})
                   = Cardinality({k \in K : lints[k].name = NameOf(out[n])})
        /\ \A k \in K : \E n \in 1..Len(out) : NameOf(out[n]) = lints[k].name
        /\ \A n \in 1..(Len(out) - 1) : ~StrLess(NameOf(out[n + 1]), NameOf(out[n]))

\* C9: gen_changelog_lint_list got an unsorted list with an internal and a
\* deprecated record and returned two lines
C9_Witness ==
    /\ lpc = "changelog"
    /\ Len(lints) = 3
    /\ Len(out) = 2
    /\ \E k \in 1..3 : InternalGroup(lints[k].group)
    /\ \E k \in 1..3 : lints[k].deprecation # None /\ ~InternalGroup(lints[k].group)
    /\ \E k \in 1..2 : StrLess(lints[k + 1].name, lints[k].name)
    /\ NameOf(out[1]) # NameOf(out[2])

====
